---------------------------- MODULE Spec2Model ----------------------------
(***************************************************************************)
(* A model of gotranx's ODE assembler (src/src/gotranx/ode.py) and of the  *)
(* code generator core (src/src/gotranx/codegen/base.py).                  *)
(*                                                                         *)
(* The program is a pipeline of functions over immutable values.  The      *)
(* state machine holds the component sequence handed to the assembler, the *)
(* ODE value a construction returned, and the result of the last call.     *)
(* Every action is one call of one entry point, translated whole.          *)
(***************************************************************************)
EXTENDS Integers, Sequences, FiniteSets, TLC

VARIABLES
    comps,      \* the component sequence the caller hands to the assembler
    mname,      \* the model name the caller passes with them
    ode,        \* <<>> or <<o>>: the ODE value the last construction returned
    res,        \* the result record of the last call
    log         \* the steps the last call went through, in order

vars == <<comps, mname, ode, res, log>>

-----------------------------------------------------------------------------
(* Bounds of the model.                                                    *)

\* the largest number of components in a generated component sequence
MaxComps == 2
\* the largest number of names an expression of a generated model refers to
MaxDeps == 2

-----------------------------------------------------------------------------
(* Names.  Python compares str values by code point, lexicographically;    *)
(* sorted(..., key=lambda x: x.name) uses that order.                      *)

Chars(n) ==
    CASE n = "a"     -> <<97>>
      [] n = "b"     -> <<98>>
      [] n = "p"     -> <<112>>
      [] n = "x"     -> <<120>>
      [] n = "y"     -> <<121>>
      [] n = "z"     -> <<122>>
      [] n = "time"  -> <<116, 105, 109, 101>>
      [] n = "beta"  -> <<98, 101, 116, 97>>
      [] n = "rho"   -> <<114, 104, 111>>
      [] n = "sigma" -> <<115, 105, 103, 109, 97>>
      [] n = "betaz" -> <<98, 101, 116, 97, 122>>
      [] n = "rhoz"  -> <<114, 104, 111, 122>>
      [] n = "y_int" -> <<121, 95, 105, 110, 116>>
      [] n = "z_int" -> <<122, 95, 105, 110, 116>>
      [] n = "dx_dt" -> <<100, 120, 95, 100, 116>>
      [] n = "dy_dt" -> <<100, 121, 95, 100, 116>>
      [] n = "dz_dt" -> <<100, 122, 95, 100, 116>>
      [] n = "x1"    -> <<120, 49>>
      [] n = "dx1_dt" -> <<100, 120, 49, 95, 100, 116>>

RECURSIVE LexLess(_, _)
LexLess(s, t) ==
    IF t = <<>> THEN FALSE
    ELSE IF s = <<>> THEN TRUE
    ELSE IF Head(s) # Head(t) THEN Head(s) < Head(t)
    ELSE LexLess(Tail(s), Tail(t))

NameLess(m, n) == LexLess(Chars(m), Chars(n))

\* sorted(S, key=lambda x: x.name) for a set of atoms with distinct names
RECURSIVE SortedByName(_)
SortedByName(S) ==
    IF S = {} THEN <<>>
    ELSE LET m == CHOOSE e \in S : \A f \in S : ~NameLess(f.name, e.name)
         IN  <<m>> \o SortedByName(S \ {m})

Range(s) == {s[i] : i \in 1..Len(s)}

\* the 1-based position of e in s, 0 when e is not in s
IndexOf(e, s) ==
    IF e \in Range(s) THEN CHOOSE i \in 1..Len(s) : s[i] = e ELSE 0

NoRepeat(s) == \A i, j \in 1..Len(s) : s[i] = s[j] => i = j

\* the sequences that enumerate the set S once each: the iteration orders of a set
Perms(S) == {s \in [1..Cardinality(S) -> S] : Range(s) = S}

-----------------------------------------------------------------------------
(* Expressions: trees of symbols, numbers and operators.                   *)

Sym(n)    == [op |-> "sym", name |-> n, args |-> <<>>]
\* k is the literal as written ("1", "0.5")
Num(k)    == [op |-> "num", name |-> k, args |-> <<>>]
Neg(e)    == [op |-> "neg", name |-> "", args |-> <<e>>]
Add(e, f) == [op |-> "add", name |-> "", args |-> <<e, f>>]
Mul(e, f) == [op |-> "mul", name |-> "", args |-> <<e, f>>]

\* the names an expression tree refers to
RECURSIVE FreeNames(_)
FreeNames(e) ==
    IF e.op = "sym" THEN {e.name}
    ELSE IF e.op = "num" THEN {}
    ELSE UNION {FreeNames(e.args[i]) : i \in 1..Len(e.args)}


-----------------------------------------------------------------------------
(* Atoms and components (gotranx.atoms, gotranx.ode_component).            *)
(* A parameter or state is [kind, name, value]; the value is the number    *)
(* in hundredths.  An assignment carries the tree it was parsed from       *)
(* (value), the iteration order of value.dependencies (a frozenset of      *)
(* names: its order is fixed per object and unspecified), the state a      *)
(* derivative belongs to (<<>> for an intermediate), and expr: <<>> until  *)
(* resolve_expression builds it.                                           *)

Parameter(n, v) == [kind |-> "Parameter", name |-> n, value |-> v]
State(n, v)     == [kind |-> "State", name |-> n, value |-> v]

Intermediate(n, tree, order) ==
    [kind |-> "Intermediate", name |-> n, state |-> <<>>,
     value |-> tree, deps |-> order, expr |-> <<>>]

StateDerivative(n, s, tree, order) ==
    [kind |-> "StateDerivative", name |-> n, state |-> <<s>>,
     value |-> tree, deps |-> order, expr |-> <<>>]

Component(n, ss, ps, as) ==
    [name |-> n, states |-> ss, parameters |-> ps, assignments |-> as]

intermediates(c) == {a \in c.assignments : a.kind = "Intermediate"}

state_derivatives(c) == {a \in c.assignments : a.kind = "StateDerivative"}

is_complete(c) ==
    {s.name : s \in c.states} = {d.state[1].name : d \in state_derivatives(c)}

states_without_derivatives(c) ==
    {s \in c.states : \A d \in state_derivatives(c) : d.state[1].name # s.name}

\* Assignment.resolve_expression: the tree rebuilt over the symbols of the table
RECURSIVE build_expression(_, _)
build_expression(tree, symbols) ==
    IF tree.op = "sym" THEN symbols[tree.name]
    ELSE IF tree.op = "num" THEN tree
    ELSE [tree EXCEPT !.args =
              [i \in 1..Len(tree.args) |-> build_expression(tree.args[i], symbols)]]

resolve_expression(a, symbols) ==
    [a EXCEPT !.expr = <<build_expression(a.value, symbols)>>]

-----------------------------------------------------------------------------
(* src/src/gotranx/ode.py                                                  *)

\* the loop keeps going and the last incomplete component wins
LastIncomplete(components) ==
    IF \E i \in 1..Len(components) : ~is_complete(components[i])
    THEN CHOOSE i \in 1..Len(components) :
             /\ ~is_complete(components[i])
             /\ \A j \in (i + 1)..Len(components) : is_complete(components[j])
    ELSE 0

\* the index of the first incomplete component, 0 when all are complete
FirstIncomplete(components) ==
    IF \E i \in 1..Len(components) : ~is_complete(components[i])
    THEN CHOOSE i \in 1..Len(components) :
             /\ ~is_complete(components[i])
             /\ \A j \in 1..(i - 1) : is_complete(components[j])
    ELSE 0

\* a check that never raises
check_nothing(components) == <<>>

\* check_components: <<>> when it returns, <<error>> when it raises
check_components(components) ==
    LET raised(i) ==
            IF i = 0 THEN <<>>
            ELSE <<[kind |-> "ComponentNotCompleteError",
                    component_name |-> components[i].name,
                    missing_state_derivatives |->
                        {s.name : s \in states_without_derivatives(components[i])}]>>
    IN  raised(FirstIncomplete(components))

\* the orders in which gather_atoms can visit the atoms of one component: the
\* parameters, the states, the intermediates, the state derivatives, each set
\* in the iteration order of a frozenset, which is any order
VisitOrders(c) ==
    {p \o x \o i \o d : p \in Perms(c.parameters), x \in Perms(c.states),
                        i \in Perms(intermediates(c)),
                        d \in Perms(state_derivatives(c))}

\* the orders in which gather_atoms can visit the atoms: component by component
RECURSIVE AtomsInOrder(_)
AtomsInOrder(components) ==
    IF components = <<>> THEN {<<>>}
    ELSE {v \o rest : v \in VisitOrders(Head(components)),
                      rest \in AtomsInOrder(Tail(components))}

\* the last atom of the sequence that has the name: dict assignment overwrites
LastNamed(atoms, n) ==
    atoms[CHOOSE i \in 1..Len(atoms) :
              /\ atoms[i].name = n
              /\ \A j \in (i + 1)..Len(atoms) : atoms[j].name # n]

\* gather_atoms(components): the results it can return, one per visiting order
gather_atoms(components) ==
    LET gathered(atoms, names) ==
            [symbol_names |-> [i \in 1..Len(atoms) |-> atoms[i].name],
             symbols      |-> [n \in names |-> Sym(n)],
             lookup       |-> [n \in names |-> LastNamed(atoms, n)]]
        named(atoms) == gathered(atoms, {atoms[i].name : i \in 1..Len(atoms)})
    IN  {named(atoms) : atoms \in AtomsInOrder(components)}

RECURSIVE find_duplicates_loop(_, _, _)
find_duplicates_loop(x, seen, dupes) ==
    IF x = <<>> THEN dupes
    ELSE IF Head(x) \in seen
         THEN find_duplicates_loop(Tail(x), seen, dupes \cup {Head(x)})
         ELSE find_duplicates_loop(Tail(x), seen \cup {Head(x)}, dupes)

\* the loop stops at the first repeated value
RECURSIVE find_first_duplicate_loop(_, _)
find_first_duplicate_loop(x, seen) ==
    IF x = <<>> THEN {}
    ELSE IF Head(x) \in seen THEN {Head(x)}
    ELSE find_first_duplicate_loop(Tail(x), seen \cup {Head(x)})

find_first_duplicate(x) == find_first_duplicate_loop(x, {})

find_duplicates(x) == find_duplicates_loop(x, {}, {})

\* symbols["time"] = t
WithTime(symbols) ==
    [n \in (DOMAIN symbols) \cup {"time"} |->
        IF n = "time" THEN Sym("t") ELSE symbols[n]]

resolve_expressions(components, symbols) ==
    [i \in 1..Len(components) |->
        [components[i] EXCEPT !.assignments =
            {resolve_expression(a, symbols) : a \in components[i].assignments}]]

\* graphlib.TopologicalSorter as sort_assignments uses it.  order is the key order
\* of _node2info (a dict keeps insertion order), npred the npredecessors of each
\* node, succ its successors list.
TSEmpty == [order |-> <<>>, npred |-> <<>>, succ |-> <<>>]

\* _get_nodeinfo
TSGet(ts, n) ==
    IF n \in Range(ts.order) THEN ts
    ELSE [order |-> Append(ts.order, n),
          npred |-> [m \in Range(ts.order) \cup {n} |->
                        IF m = n THEN 0 ELSE ts.npred[m]],
          succ  |-> [m \in Range(ts.order) \cup {n} |->
                        IF m = n THEN <<>> ELSE ts.succ[m]]]

RECURSIVE TSAddPreds(_, _, _)
TSAddPreds(ts, node, preds) ==
    IF preds = <<>> THEN ts
    ELSE LET t1 == TSGet(ts, Head(preds))
         IN  TSAddPreds([t1 EXCEPT !.succ[Head(preds)] = Append(@, node)],
                        node, Tail(preds))

\* TopologicalSorter.add(node, *predecessors)
TSAdd(ts, node, preds) ==
    LET t1 == TSGet(ts, node)
    IN  TSAddPreds([t1 EXCEPT !.npred[node] = @ + Len(preds)], node, preds)

\* TopologicalSorter._find_cycle: a depth-first walk along the successors, from
\* each node in key order.  stack is the path, its[k] the number of successors of
\* stack[k] already taken.  The result is [cycle, seen]; cycle is <<>> for None.
RECURSIVE FCVisit(_, _, _, _, _)
RECURSIVE FCAdvance(_, _, _, _)
FCVisit(ts, node, stack, its, seen) ==
    IF node \in seen
    THEN IF node \in Range(stack)
         THEN [cycle |-> SubSeq(stack, IndexOf(node, stack), Len(stack)) \o <<node>>,
               seen  |-> seen]
         ELSE FCAdvance(ts, stack, its, seen)
    ELSE FCAdvance(ts, Append(stack, node), Append(its, 0), seen \cup {node})

FCAdvance(ts, stack, its, seen) ==
    IF stack = <<>> THEN [cycle |-> <<>>, seen |-> seen]
    ELSE LET k   == Len(stack)
             top == stack[k]
         IN  IF its[k] < Len(ts.succ[top])
             THEN FCVisit(ts, ts.succ[top][its[k] + 1], stack,
                          [its EXCEPT ![k] = @ + 1], seen)
             ELSE FCAdvance(ts, SubSeq(stack, 1, k - 1), SubSeq(its, 1, k - 1), seen)

RECURSIVE FCFrom(_, _, _)
FCFrom(ts, k, seen) ==
    LET next(r) == IF r.cycle # <<>> THEN r.cycle ELSE FCFrom(ts, k + 1, r.seen)
    IN  IF k > Len(ts.order) THEN <<>>
        ELSE IF ts.order[k] \in seen THEN FCFrom(ts, k + 1, seen)
        ELSE next(FCVisit(ts, ts.order[k], <<>>, <<>>, seen))

\* prepare() without the cycle check
find_no_cycle(ts) == <<>>

find_cycle(ts) == FCFrom(ts, 1, {})

\* a successor is released at every decrement, not only when its count reaches 0
RECURSIVE TSReleaseEarly(_, _, _)
TSReleaseEarly(npred, succs, ready) ==
    IF succs = <<>> THEN [npred |-> npred, ready |-> ready]
    ELSE LET s  == Head(succs)
             np == [npred EXCEPT ![s] = @ - 1]
         IN  TSReleaseEarly(np, Tail(succs), Append(ready, s))

\* TopologicalSorter.done(*nodes): each node is marked done (-2) and releases its
\* successors; a successor whose count reaches 0 is appended to the ready list
RECURSIVE TSRelease(_, _, _)
TSRelease(npred, succs, ready) ==
    IF succs = <<>> THEN [npred |-> npred, ready |-> ready]
    ELSE LET s  == Head(succs)
             np == [npred EXCEPT ![s] = @ - 1]
         IN  TSRelease(np, Tail(succs), IF np[s] = 0 THEN Append(ready, s) ELSE ready)

RECURSIVE TSDone(_, _, _)
TSDone(ts, nodes, ready) ==
    LET released(r) == TSDone([ts EXCEPT !.npred = r.npred], Tail(nodes), r.ready)
    IN  IF nodes = <<>> THEN [ts |-> ts, ready |-> ready]
        ELSE released(TSRelease([ts.npred EXCEPT ![Head(nodes)] = -2],
                                ts.succ[Head(nodes)], ready))

\* the loop of static_order: get_ready hands out the ready list (marking each
\* node -1), the nodes are yielded, done(*node_group) fills the next ready list
RECURSIVE TSLoop(_, _, _)
TSLoop(ts, ready, out) ==
    LET passed == [ts EXCEPT !.npred =
                      [m \in DOMAIN ts.npred |->
                          IF m \in Range(ready) THEN -1 ELSE ts.npred[m]]]
        again(r) == TSLoop(r.ts, r.ready, out \o ready)
    IN  IF ready = <<>> THEN out
        ELSE again(TSDone(passed, ready, <<>>))

\* TopologicalSorter.static_order: prepare() raises CycleError when _find_cycle
\* finds a cycle, before any node is yielded
static_order(ts) ==
    LET prepared(cycle) ==
            IF cycle # <<>>
            THEN [kind |-> "CycleError", cycle |-> cycle, order |-> <<>>]
            ELSE [kind |-> "order", cycle |-> <<>>,
                  order |-> TSLoop(ts, SelectSeq(ts.order, LAMBDA n : ts.npred[n] = 0),
                                   <<>>)]
    IN  prepared(find_cycle(ts))

RECURSIVE AddAll(_, _)
AddAll(ts, assignments) ==
    IF assignments = <<>> THEN ts
    ELSE AddAll(TSAdd(ts, Head(assignments).name, Head(assignments).deps),
                Tail(assignments))

\* sort_assignments(assignments, assignments_only)
sort_assignments(assignments, assignments_only) ==
    LET assignment_names == {assignments[i].name : i \in 1..Len(assignments)}
        filtered(so) ==
            IF so.kind = "CycleError" THEN so
            ELSE IF assignments_only
                 THEN [so EXCEPT !.order = SelectSeq(@, LAMBDA n : n \in assignment_names)]
                 ELSE so
    IN  filtered(static_order(AddAll(TSEmpty, assignments)))

\* the constructor without the uniqueness check
ODEUnchecked(components, name) ==
    LET init(bad, g) ==
            IF bad # <<>>
            THEN [kind |-> bad[1].kind, ode |-> <<>>, error |-> bad,
                  log |-> <<"check_components">>]
            ELSE [kind |-> "ODE",
                  ode |-> <<[name       |-> name,
                             components |-> components,
                             symbols    |-> WithTime(g.symbols),
                             lookup     |-> g.lookup]>>,
                  error |-> <<>>,
                  log |-> <<"check_components", "gather_atoms">>]
    IN  {init(check_components(components), g) : g \in gather_atoms(components)}

\* ODE.__init__(components, name): the outcomes it can have, the ODE value or
\* the error it raises.  log lists the steps in the order they run.
ODE(components, name) ==
    LET init(bad, g) ==
            IF bad # <<>>
            THEN [kind |-> bad[1].kind, ode |-> <<>>, error |-> bad,
                  log |-> <<"check_components">>]
            ELSE IF Len(g.symbol_names) # Cardinality(Range(g.symbol_names))
            THEN [kind |-> "DuplicateSymbolError", ode |-> <<>>,
                  error |-> <<[kind |-> "DuplicateSymbolError",
                               duplicates |-> find_duplicates(g.symbol_names)]>>,
                  log |-> <<"check_components", "gather_atoms", "find_duplicates">>]
            ELSE [kind |-> "ODE",
                  ode |-> <<[name       |-> name,
                             components |-> components,
                             symbols    |-> WithTime(g.symbols),
                             lookup     |-> g.lookup]>>,
                  error |-> <<>>,
                  log |-> <<"check_components", "gather_atoms">>]
    IN  {init(check_components(components), g) : g \in gather_atoms(components)}

\* make_ode(components, name): the outcomes it can have, an ODE value or the
\* error it raises
make_ode(components, name) ==
    LET logged(made) ==
            [made EXCEPT !.log =
                <<"check_components", "check_components", "gather_atoms",
                  "resolve_expressions">> \o @]
        assembled(bad, g) ==
            IF bad # <<>>
            THEN {[kind |-> bad[1].kind, ode |-> <<>>, error |-> bad,
                   log |-> <<"check_components">>]}
            ELSE IF Len(g.symbol_names) # Cardinality(Range(g.symbol_names))
            THEN {[kind |-> "DuplicateSymbolError", ode |-> <<>>,
                   error |-> <<[kind |-> "DuplicateSymbolError",
                                duplicates |-> find_duplicates(g.symbol_names)]>>,
                   log |-> <<"check_components", "check_components", "gather_atoms",
                             "find_duplicates">>]}
            ELSE {logged(made) :
                    made \in ODE(resolve_expressions(components, WithTime(g.symbols)),
                                 name)}
    IN  UNION {assembled(check_components(components), g) :
                  g \in gather_atoms(components)}

UnionOf(components, field) ==
    UNION {components[i][field] : i \in 1..Len(components)}

\* sorted(..., reverse=True)
RECURSIVE SortedByNameReversed(_)
SortedByNameReversed(S) ==
    IF S = {} THEN <<>>
    ELSE LET m == CHOOSE e \in S : \A f \in S : ~NameLess(e.name, f.name)
         IN  <<m>> \o SortedByNameReversed(S \ {m})

states_reversed(o) == SortedByNameReversed(UnionOf(o.components, "states"))

\* the parameters view built from the states
parameters_from_states(o) == SortedByName(UnionOf(o.components, "states"))

\* ODE.states, ODE.parameters
states(o) == SortedByName(UnionOf(o.components, "states"))

parameters(o) == SortedByName(UnionOf(o.components, "parameters"))

\* ODE.state_derivatives, ODE.intermediates
ode_state_derivatives(o) ==
    SortedByName(UNION {state_derivatives(o.components[i]) : i \in 1..Len(o.components)})

ode_intermediates(o) ==
    SortedByName(UNION {intermediates(o.components[i]) : i \in 1..Len(o.components)})

\* ODE.sorted_assignments(assignments_only): the atoms self[name] in the order
\* sort_assignments returns; a name the lookup table lacks raises KeyError
sorted_assignments(o, assignments_only) ==
    LET looked_up(names) ==
            IF names.kind = "CycleError"
            THEN [kind |-> "CycleError", cycle |-> names.cycle, atoms |-> <<>>]
            ELSE IF \E i \in 1..Len(names.order) : names.order[i] \notin DOMAIN o.lookup
            THEN [kind |-> "KeyError", cycle |-> <<>>, atoms |-> <<>>]
            ELSE [kind |-> "atoms", cycle |-> <<>>,
                  atoms |-> [i \in 1..Len(names.order) |-> o.lookup[names.order[i]]]]
    IN  looked_up(sort_assignments(ode_intermediates(o) \o ode_state_derivatives(o),
                                   assignments_only))

-----------------------------------------------------------------------------
(* src/src/gotranx/codegen/base.py                                         *)

RHSArgument == {"stp", "spt", "tsp", "tps", "pst", "pts"}

\* _rhs_arguments(order): the argument tokens in the order the value spells
rhs_arguments(order) ==
    CASE order = "stp" -> <<"states", "t", "parameters">>
      [] order = "spt" -> <<"states", "parameters", "t">>
      [] order = "tsp" -> <<"t", "states", "parameters">>
      [] order = "tps" -> <<"t", "parameters", "states">>
      [] order = "pst" -> <<"parameters", "states", "t">>
      [] order = "pts" -> <<"parameters", "t", "states">>

\* the _formatter a generator class defines: the base class returns the code as
\* it is, a subclass may return it reformatted, raise an exception derived from
\* Exception, or raise one that is a BaseException only (SystemExit,
\* KeyboardInterrupt, GeneratorExit)
Formatters == {"identity", "reformats", "raises", "exits"}

\* CodeGenerator._formatter: the text it returns, or the class of what it raises
formatter(code, f) ==
    IF f = "raises" THEN [raised |-> "Exception", text |-> <<>>]
    ELSE IF f = "exits" THEN [raised |-> "SystemExit", text |-> <<>>]
    ELSE IF f = "reformats"
    THEN [raised |-> "", text |-> <<[code EXCEPT !.formatted = TRUE]>>]
    ELSE [raised |-> "", text |-> <<code>>]

\* the exception classes the clause "except Exception" catches
CaughtByExceptException == {"Exception"}

\* what leaves an entry point when an exception passes through it
Propagated(raised) == [kind |-> raised, formatted |-> FALSE]

\* CodeGenerator._format: the formatter's text; the code itself when the
\* formatter raised an Exception; any other exception passes through
format(code, f) ==
    LET tried(formatted_code) ==
            IF formatted_code.raised = "" THEN formatted_code.text[1]
            ELSE IF formatted_code.raised \in CaughtByExceptException THEN code
            ELSE Propagated(formatted_code.raised)
    IN  tried(formatter(code, f))

\* CodeGenerator.state_index(): name -> position, in the order of ODE.states
state_index(o, f) ==
    LET data(ss) == [k \in 1..Len(ss) |-> [name |-> ss[k].name, index |-> k - 1]]
    IN  format([kind |-> "code", data |-> data(states(o)), formatted |-> FALSE], f)

\* CodeGenerator.parameter_index()
parameter_index(o, f) ==
    LET data(ps) == [k \in 1..Len(ps) |-> [name |-> ps[k].name, index |-> k - 1]]
    IN  format([kind |-> "code", data |-> data(parameters(o)), formatted |-> FALSE], f)

\* CodeGenerator.initial_state_values(): code is the vector assigned to states,
\* position by position; the template also gets the names and values of
\* ODE.states for its comment
initial_state_values(o, f) ==
    LET rendered(ds, ss) ==
            format([kind |-> "code",
                    code |-> [k \in 1..Len(ds) |-> ds[k].state[1].value],
                    names  |-> [k \in 1..Len(ss) |-> ss[k].name],
                    values |-> [k \in 1..Len(ss) |-> ss[k].value],
                    formatted |-> FALSE], f)
    IN  rendered(ode_state_derivatives(o), states(o))

\* CodeGenerator.initial_parameter_values()
initial_parameter_values(o, f) ==
    LET rendered(ps) ==
            format([kind |-> "code",
                    code |-> [k \in 1..Len(ps) |-> ps[k].value],
                    names  |-> [k \in 1..Len(ps) |-> ps[k].name],
                    values |-> [k \in 1..Len(ps) |-> ps[k].value],
                    formatted |-> FALSE], f)
    IN  rendered(parameters(o))

\* CodeGenerator._state_assignments: state k of ODE.states is read from states[k-1]
state_assignments(o) ==
    LET indexed(ss) == [k \in 1..Len(ss) |-> [symbol |-> ss[k].name, index |-> k - 1]]
    IN  indexed(states(o))

\* CodeGenerator._parameter_assignments
parameter_assignments(o) ==
    LET indexed(ps) == [k \in 1..Len(ps) |-> [symbol |-> ps[k].name, index |-> k - 1]]
    IN  indexed(parameters(o))

\* the loop of CodeGenerator.rhs over sorted_assignments: an intermediate is
\* assigned to its symbol, a state derivative to values[index], and index counts
\* the state derivatives met so far
RECURSIVE rhs_lines(_, _)
rhs_lines(xs, index) ==
    IF xs = <<>> THEN <<>>
    ELSE LET x == Head(xs) IN
         IF x.kind = "Intermediate"
         THEN <<[lhs |-> [base |-> "symbol", name |-> x.name, index |-> -1],
                 rhs |-> x.expr]>> \o rhs_lines(Tail(xs), index)
         ELSE <<[lhs |-> [base |-> "values", name |-> "values", index |-> index],
                 rhs |-> x.expr]>> \o rhs_lines(Tail(xs), index + 1)

\* the output index counts from the position of the states argument
rhs_offset_by_order(o, order, f) ==
    LET body(sorted) ==
            IF sorted.kind # "atoms"
            THEN [kind |-> sorted.kind, cycle |-> sorted.cycle, order |-> order,
                  states |-> <<>>, parameters |-> <<>>, values |-> <<>>,
                  formatted |-> FALSE]
            ELSE format([kind |-> "code", cycle |-> <<>>, order |-> order,
                         states     |-> state_assignments(o),
                         parameters |-> parameter_assignments(o),
                         values     |-> rhs_lines(sorted.atoms,
                                           IndexOf("states", rhs_arguments(order)) - 1),
                         formatted  |-> FALSE], f)
    IN  body(sorted_assignments(o, TRUE))

\* CodeGenerator.rhs(order), of a generator whose _formatter is f.  The code is
\* the content handed to the template: the argument order, the two unpacking
\* blocks and the assignment lines; formatted tells whether a formatter rewrote it.
rhs(o, order, f) ==
    LET body(sorted) ==
            IF sorted.kind # "atoms"
            THEN [kind |-> sorted.kind, cycle |-> sorted.cycle, order |-> order,
                  states |-> <<>>, parameters |-> <<>>, values |-> <<>>,
                  formatted |-> FALSE]
            ELSE format([kind |-> "code", cycle |-> <<>>, order |-> order,
                         states     |-> state_assignments(o),
                         parameters |-> parameter_assignments(o),
                         values     |-> rhs_lines(sorted.atoms, 0),
                         formatted  |-> FALSE], f)
    IN  body(sorted_assignments(o, TRUE))

-----------------------------------------------------------------------------
(* Component algebra and the right-hand-side vector (gotranx.ode_component, *)
(* gotranx.sympytools).                                                    *)

\* missing_variables: the names the assignment expressions refer to that are not
\* names of the own states, parameters or intermediates
missing_variables(components) ==
    LET cs == {components[i] : i \in 1..Len(components)} IN
    UNION {Range(a.deps) : a \in UNION {c.assignments : c \in cs}}
        \ UNION {{x.name : x \in c.states} \cup {q.name : q \in c.parameters}
                    \cup {i.name : i \in intermediates(c)} : c \in cs}

\* Component.to_ode()
to_ode(c) == ODE(<<c>>, c.name)

\* ODE.__sub__(component)
ode_sub(o, c) ==
    ODE(SelectSeq(o.components, LAMBDA d : d # c), o.name \o " - " \o c.name)

\* one pass of the substitution: every symbol of an intermediate is replaced by
\* the intermediate's expression
RECURSIVE xreplace(_, _)
xreplace(e, table) ==
    IF e.op = "sym" THEN (IF e.name \in DOMAIN table THEN table[e.name] ELSE e)
    ELSE IF e.op = "num" THEN e
    ELSE [e EXCEPT !.args = [i \in 1..Len(e.args) |-> xreplace(e.args[i], table)]]

RECURSIVE substitute_all(_, _)
substitute_all(e, table) ==
    IF FreeNames(e) \cap DOMAIN table = {} THEN e
    ELSE substitute_all(xreplace(e, table), table)

\* sympytools.rhs_matrix(ode): per state of ODE.states, the expression of its
\* derivative with the intermediates substituted away
rhs_matrix(o) ==
    LET table(is) == [n \in {is[k].name : k \in 1..Len(is)} |->
                         (CHOOSE i \in Range(is) : i.name = n).expr[1]]
        column(ss, ds, t) ==
            [k \in 1..Len(ss) |->
                substitute_all(
                    (CHOOSE d \in Range(ds) : d.state[1].name = ss[k].name).expr[1], t)]
    IN  column(states(o), ode_state_derivatives(o), table(ode_intermediates(o)))

\* sympytools.forward_explicit_euler(ode, dt, name="values"): per state of
\* ODE.states the equation values[i] = state + dt * RHS[i]
sympytools_forward_explicit_euler(o) ==
    LET eqs(ss, column) ==
            [k \in 1..Len(ss) |->
                [lhs |-> [base |-> "values", name |-> "values", index |-> k - 1],
                 rhs |-> Add(Sym(ss[k].name), Mul(Sym("dt"), column[k]))]]
    IN  eqs(states(o), rhs_matrix(o))

\* the join leaves the last equation out
forward_explicit_euler_short(o, f) ==
    LET joined(eqs) ==
            format([kind |-> "code", cycle |-> <<>>, order |-> "stp",
                    states     |-> state_assignments(o),
                    parameters |-> parameter_assignments(o),
                    values     |-> SubSeq(eqs, 1, Len(eqs) - 1),
                    formatted  |-> FALSE], f)
    IN  joined(sympytools_forward_explicit_euler(o))

\* CodeGenerator.forward_explicit_euler(): the arguments of order stp and dt, the
\* unpacking blocks, and one line per equation
forward_explicit_euler(o, f) ==
    format([kind |-> "code", cycle |-> <<>>, order |-> "stp",
            states     |-> state_assignments(o),
            parameters |-> parameter_assignments(o),
            values     |-> sympytools_forward_explicit_euler(o),
            formatted  |-> FALSE], f)

\* the derivative of an expression tree with respect to the symbol x
RECURSIVE diff(_, _)
diff(e, x) ==
    IF e.op = "sym" THEN (IF e.name = x THEN Num("1") ELSE Num("0"))
    ELSE IF e.op = "num" THEN Num("0")
    ELSE IF e.op = "neg" THEN Neg(diff(e.args[1], x))
    ELSE IF e.op = "add" THEN Add(diff(e.args[1], x), diff(e.args[2], x))
    ELSE Add(Mul(diff(e.args[1], x), e.args[2]), Mul(e.args[1], diff(e.args[2], x)))

\* the expression simplifies to 0
RECURSIVE is_zero(_)
is_zero(e) ==
    IF e.op = "sym" THEN FALSE
    ELSE IF e.op = "num" THEN e.name = "0"
    ELSE IF e.op = "neg" THEN is_zero(e.args[1])
    ELSE IF e.op = "add" THEN is_zero(e.args[1]) /\ is_zero(e.args[2])
    ELSE is_zero(e.args[1]) \/ is_zero(e.args[2])

\* every derivative passes for linear
always_linear(e, x) == TRUE

\* the Rush-Larsen test: a = d(e)/dx has zero derivative with respect to x
linear_in_itself(e, x) == is_zero(diff(diff(e, x), x))

\* the generalized (hybrid) Rush-Larsen scheme.  stiff_states is <<>> when the
\* caller names none, <<S>> for the set S of names; per state of ODE.states one
\* update: Rush-Larsen with the coefficient a when the state is asked for and its
\* derivative is linear in it, explicit Euler otherwise
hybrid_rush_larsen(o, stiff_states) ==
    LET updates(ss, column) ==
            [k \in 1..Len(ss) |->
                IF /\ stiff_states = <<>> \/ ss[k].name \in stiff_states[1]
                   /\ linear_in_itself(column[k], ss[k].name)
                THEN [state |-> ss[k].name, index |-> k - 1,
                      scheme |-> "rush_larsen",
                      a |-> <<diff(column[k], ss[k].name)>>, rhs |-> column[k]]
                ELSE [state |-> ss[k].name, index |-> k - 1,
                      scheme |-> "forward_explicit_euler",
                      a |-> <<>>, rhs |-> column[k]]]
    IN  updates(states(o), rhs_matrix(o))

-----------------------------------------------------------------------------
(* The component sequences the model hands to the assembler.               *)

\* a tree of the pool with each iteration order of its dependency set
Variants(pool) ==
    UNION {{<<t, o>> : o \in Perms(FreeNames(t))} :
              t \in {u \in pool : Cardinality(FreeNames(u)) <= MaxDeps}}

CompName(i) ==
    CASE i = 1 -> "Main component"
      [] i = 2 -> "Z component"
      [] OTHER -> "Third component"

X == State("x", 100)
Y == State("y", 200)
Z == State("z", 305)
P == Parameter("p", 50)

PoolA  == {Mul(Sym("x"), Sym("y")), Sym("b"), Mul(Sym("a"), Sym("p"))}
PoolB  == {Neg(Sym("a")), Mul(Sym("time"), Sym("y")), Num("2")}
PoolDX == {Mul(Sym("a"), Sym("y")), Sym("b"), Neg(Mul(Sym("p"), Sym("x"))),
           Add(Mul(Sym("a"), Sym("x")), Sym("b"))}
PoolDY == {Sym("x"), Num("1"), Add(Sym("a"), Sym("b")), Neg(Sym("dx_dt"))}

\* one component that holds every atom; the expressions vary
GraphModels ==
    {<<Component(CompName(1), {X, Y}, {P},
                 {Intermediate("a", va[1], va[2]),
                  Intermediate("b", vb[1], vb[2]),
                  StateDerivative("dx_dt", X, vx[1], vx[2]),
                  StateDerivative("dy_dt", Y, vy[1], vy[2])})>> :
        va \in Variants(PoolA), vb \in Variants(PoolB),
        vx \in Variants(PoolDX), vy \in Variants(PoolDY)}

\* the atoms vary: where each one is declared (0: nowhere), whether a state has
\* its derivative, and which parameters of the last component repeat a name
ExtraParameters == {Parameter("x", 60), Parameter("p", 60)}

Placed(n, at, has, extra) ==
    [i \in 1..n |->
        Component(CompName(i),
            {s \in {X, Y} : at[s.name] = i},
            {q \in {P} : at["p"] = i} \cup (IF i = n THEN extra ELSE {}),
            {a \in {Intermediate("a", Neg(Sym("x")), <<"x">>),
                    Intermediate("b", Neg(Sym("a")), <<"a">>)} : at[a.name] = i}
              \cup
            {d \in {StateDerivative("dx_dt", X, Sym("a"), <<"a">>),
                    StateDerivative("dy_dt", Y, Sym("x"), <<"x">>)} :
                at[d.state[1].name] = i /\ d.name \in has})]

PlacedModels ==
    UNION {{Placed(n, at, has, extra) :
                at \in {f \in [{"x", "y", "p", "a", "b"} -> 0..n] :
                           f["x"] = 1 /\ f["y"] # 0 /\ f["a"] # 0},
                has \in SUBSET {"dx_dt", "dy_dt"},
                extra \in SUBSET ExtraParameters} :
           n \in 1..MaxComps}

\* two components that refer to each other, to the reserved name time and to
\* the name of a state derivative
CoupledModels ==
    {<<Component(CompName(1), {X}, {P},
                 {Intermediate("a", va[1], va[2]),
                  StateDerivative("dx_dt", X, vx[1], vx[2])}),
       Component(CompName(2), {Y}, {},
                 {StateDerivative("dy_dt", Y, vy[1], vy[2])})>> :
        va \in Variants({Mul(Sym("time"), Sym("x")), Neg(Sym("dx_dt")), Neg(Sym("y"))}),
        vx \in Variants({Neg(Mul(Sym("p"), Sym("x"))), Mul(Sym("a"), Sym("y"))}),
        vy \in Variants({Neg(Sym("dx_dt")), Mul(Sym("time"), Sym("y")), Sym("a")})}

\* the model of tests/test_subodes.py, made with name="lorentz"
Lorentz(orz, oy, ox, obz, oz) ==
    <<Component("Main component",
                {X, Y},
                {Parameter("sigma", 1200), Parameter("rho", 2100)},
                {Intermediate("rhoz", Add(Sym("rho"), Neg(Sym("z"))), orz),
                 StateDerivative("dy_dt", Y,
                     Add(Mul(Sym("x"), Sym("rhoz")), Neg(Sym("y"))), oy),
                 StateDerivative("dx_dt", X,
                     Mul(Sym("sigma"), Add(Neg(Sym("x")), Sym("y"))), ox)}),
      Component("Z component",
                {Z},
                {Parameter("beta", 240)},
                {Intermediate("betaz", Mul(Sym("beta"), Sym("z")), obz),
                 StateDerivative("dz_dt", Z,
                     Add(Neg(Sym("betaz")), Mul(Sym("x"), Sym("y"))), oz)})>>

\* the end-to-end model: state x = 1.0, parameter a = 1.0, dx_dt = -a*x
EndToEndModels ==
    {<<Component("Main component", {X}, {Parameter("a", 100)},
                 {StateDerivative("dx_dt", X, Neg(Mul(Sym("a"), Sym("x"))), o)})>> :
        o \in Perms({"a", "x"})}

\* models for the schemes: each derivative linear in its state, not linear in
\* it, or free of it
SchemeModels ==
    {<<Component("Main component", {X, Y}, {P},
                 {StateDerivative("dx_dt", X, vx[1], vx[2]),
                  StateDerivative("dy_dt", Y, vy[1], vy[2])})>> :
        vx \in Variants({Neg(Mul(Sym("p"), Sym("x"))), Mul(Sym("x"), Sym("x")),
                         Sym("y")}),
        vy \in Variants({Mul(Sym("x"), Sym("y")), Mul(Sym("y"), Sym("y")),
                         Num("1")})}

\* two states whose derivatives sort the other way round: x < x1, dx1_dt < dx_dt
IndexModels ==
    {<<Component("Main component", {X, State("x1", 200)}, {P, Parameter("a", 100)},
                 {StateDerivative("dx_dt", X, Neg(Mul(Sym("a"), Sym("x"))), o),
                  StateDerivative("dx1_dt", State("x1", 200), Sym("p"), <<"p">>)})>> :
        o \in Perms({"a", "x"})}

LorentzModels ==
    {Lorentz(orz, oy, ox, obz, oz) :
        orz \in Perms({"rho", "z"}), oy \in Perms({"x", "rhoz", "y"}),
        ox \in Perms({"sigma", "x", "y"}), obz \in Perms({"beta", "z"}),
        oz \in Perms({"betaz", "x", "y"})}

Inputs ==
    {[components |-> c, name |-> "ODE"] :
        c \in GraphModels \cup PlacedModels \cup EndToEndModels \cup SchemeModels
                \cup IndexModels \cup CoupledModels}
        \cup {[components |-> c, name |-> "lorentz"] : c \in LorentzModels}

-----------------------------------------------------------------------------
(* The state machine.                                                      *)

NoResult == [op |-> "none"]

Init ==
    /\ \E i \in Inputs : comps = i.components /\ mname = i.name
    /\ ode = <<>>
    /\ res = NoResult
    /\ log = <<>>

\* A behaviour is one construction followed by one call on the value it
\* returned: each property checked here is about the result of one call.
Fresh == res.op = "none"

Constructed == ode # <<>> /\ res.op \in {"make_ode", "ODE"}

\* gotranx.ode.make_ode(components, name=name)
MakeOde ==
    /\ Fresh
    /\ \E made \in make_ode(comps, mname) :
          /\ ode' = made.ode
          /\ res' = [op |-> "make_ode", kind |-> made.kind, error |-> made.error]
          /\ log' = made.log
    /\ UNCHANGED <<comps, mname>>

\* gotranx.ode.ODE(components, name=name)
NewODE ==
    /\ Fresh
    /\ \E made \in ODE(comps, mname) :
          /\ ode' = made.ode
          /\ res' = [op |-> "ODE", kind |-> made.kind, error |-> made.error]
          /\ log' = made.log
    /\ UNCHANGED <<comps, mname>>

\* ODE.sorted_assignments(assignments_only)
SortedAssignments ==
    /\ Constructed
    /\ \E assignments_only \in BOOLEAN :
          \E sorted \in {sorted_assignments(ode[1], assignments_only)} :
              /\ res' = [op |-> "sorted_assignments", kind |-> sorted.kind,
                         assignments_only |-> assignments_only,
                         cycle |-> sorted.cycle,
                         names |-> [i \in 1..Len(sorted.atoms) |-> sorted.atoms[i].name]]
              /\ log' = <<"sort_assignments">>
    /\ UNCHANGED <<comps, mname, ode>>

\* CodeGenerator(ode).rhs(order)
Rhs ==
    /\ Constructed
    /\ \E order \in RHSArgument, f \in Formatters :
          \E code \in {rhs(ode[1], order, f)} :
              /\ res' = [op |-> "rhs", kind |-> code.kind, code |-> code,
                         order |-> order, formatter |-> f]
              /\ log' = <<"sort_assignments">>
    /\ UNCHANGED <<comps, mname, ode>>

\* Component.to_ode(), of a component as handed over or of one of the ODE
ToOde ==
    /\ Fresh \/ Constructed
    /\ \E c \in Range(IF Fresh THEN comps ELSE ode[1].components) :
          \E made \in to_ode(c) :
              /\ res' = [op |-> "to_ode", kind |-> made.kind, error |-> made.error,
                         component |-> c, ode |-> made.ode,
                         missing_variables |->
                             IF made.ode = <<>> THEN {}
                             ELSE missing_variables(made.ode[1].components)]
              /\ log' = made.log
    /\ UNCHANGED <<comps, mname, ode>>

\* ode - component, for a component of the ODE
Subtract ==
    /\ Constructed
    /\ \E c \in Range(ode[1].components) :
          \E made \in ode_sub(ode[1], c) :
              /\ res' = [op |-> "sub", kind |-> made.kind, error |-> made.error,
                         component |-> c, ode |-> made.ode,
                         missing_variables |->
                             IF made.ode = <<>> THEN {}
                             ELSE missing_variables(made.ode[1].components)]
              /\ log' = made.log
    /\ UNCHANGED <<comps, mname, ode>>

\* sympytools.rhs_matrix(ode), on a model make_ode resolved; the substitution
\* ends only when no intermediate refers to itself
RhsMatrix ==
    /\ Constructed /\ res.op = "make_ode"
    /\ sort_assignments(ode_intermediates(ode[1]), TRUE).kind = "order"
    /\ res' = [op |-> "rhs_matrix", kind |-> "matrix", rhs |-> rhs_matrix(ode[1])]
    /\ log' = <<>>
    /\ UNCHANGED <<comps, mname, ode>>

\* CodeGenerator(ode).state_index()
StateIndex ==
    /\ Constructed
    /\ \E f \in Formatters :
          \E code \in {state_index(ode[1], f)} :
              res' = [op |-> "state_index", kind |-> code.kind, code |-> code,
                      order |-> "", formatter |-> f]
    /\ log' = <<>>
    /\ UNCHANGED <<comps, mname, ode>>

\* CodeGenerator(ode).parameter_index()
ParameterIndex ==
    /\ Constructed
    /\ \E f \in Formatters :
          \E code \in {parameter_index(ode[1], f)} :
              res' = [op |-> "parameter_index", kind |-> code.kind, code |-> code,
                      order |-> "", formatter |-> f]
    /\ log' = <<>>
    /\ UNCHANGED <<comps, mname, ode>>

\* CodeGenerator(ode).initial_state_values()
InitialStateValues ==
    /\ Constructed
    /\ \E f \in Formatters :
          \E code \in {initial_state_values(ode[1], f)} :
              res' = [op |-> "initial_state_values", kind |-> code.kind,
                      code |-> code, order |-> "", formatter |-> f]
    /\ log' = <<>>
    /\ UNCHANGED <<comps, mname, ode>>

\* CodeGenerator(ode).initial_parameter_values()
InitialParameterValues ==
    /\ Constructed
    /\ \E f \in Formatters :
          \E code \in {initial_parameter_values(ode[1], f)} :
              res' = [op |-> "initial_parameter_values", kind |-> code.kind,
                      code |-> code, order |-> "", formatter |-> f]
    /\ log' = <<>>
    /\ UNCHANGED <<comps, mname, ode>>

\* the substitution of the intermediates ends: none refers to itself
Expandable == sort_assignments(ode_intermediates(ode[1]), TRUE).kind = "order"

\* CodeGenerator(ode).forward_explicit_euler(), on a model make_ode resolved
ForwardExplicitEuler ==
    /\ Constructed /\ res.op = "make_ode"
    /\ Expandable
    /\ \E f \in Formatters :
          \E code \in {forward_explicit_euler(ode[1], f)} :
              /\ res' = [op |-> "forward_explicit_euler", kind |-> code.kind,
                         code |-> code, order |-> "stp", formatter |-> f]
              /\ log' = <<>>
    /\ UNCHANGED <<comps, mname, ode>>

\* gotranx ode2py --scheme ... --stiff-states ...: the hybrid scheme for the
\* stiff states the caller names (none named: None)
Hybrid ==
    /\ Constructed /\ res.op = "make_ode"
    /\ Expandable
    /\ \E stiff_states \in {<<>>} \cup
            {<<S>> : S \in SUBSET {x.name : x \in Range(states(ode[1]))}} :
          /\ res' = [op |-> "hybrid", kind |-> "code", stiff_states |-> stiff_states,
                     updates |-> hybrid_rush_larsen(ode[1], stiff_states)]
          /\ log' = <<>>
    /\ UNCHANGED <<comps, mname, ode>>

Next ==
    \/ MakeOde
    \/ NewODE
    \/ SortedAssignments
    \/ Rhs
    \/ ToOde
    \/ Subtract
    \/ RhsMatrix
    \/ ForwardExplicitEuler
    \/ Hybrid
    \/ StateIndex
    \/ ParameterIndex
    \/ InitialStateValues
    \/ InitialParameterValues

Spec == Init /\ [][Next]_vars

-----------------------------------------------------------------------------
(* What the claims speak about, stated without the code's algorithms.      *)

AllAtoms(components, i) ==
    components[i].parameters \cup components[i].states \cup components[i].assignments

\* how many atoms of the component sequence carry the name
Occurrences(components, n) ==
    LET count[i \in 0..Len(components)] ==
            IF i = 0 THEN 0
            ELSE count[i - 1]
                 + Cardinality({p \in components[i].parameters : p.name = n})
                 + Cardinality({x \in components[i].states : x.name = n})
                 + Cardinality({a \in components[i].assignments : a.name = n})
    IN  count[Len(components)]

AtomNames(components) ==
    UNION {{a.name : a \in AllAtoms(components, i)} : i \in 1..Len(components)}

RepeatedNames(components) ==
    {n \in AtomNames(components) : Occurrences(components, n) > 1}

\* the names of the states of c that no state derivative of c is for
LackingDerivative(c) ==
    {x.name : x \in c.states} \
        {a.state[1].name : a \in {b \in c.assignments : b.kind = "StateDerivative"}}

Incomplete(c) ==
    {x.name : x \in c.states}
        # {a.state[1].name : a \in {b \in c.assignments : b.kind = "StateDerivative"}}

Assignments(components) ==
    UNION {components[i].assignments : i \in 1..Len(components)}

AssignmentNames(components) == {a.name : a \in Assignments(components)}

\* the assignment names the expression of assignment a refers to
DependsOn(components, a) == FreeNames(a.value) \cap AssignmentNames(components)

\* the assignment names reachable from a along at most k dependencies
RECURSIVE Reaches(_, _, _)
Reaches(components, from, k) ==
    IF k = 0 THEN from
    ELSE Reaches(components,
                 from \cup UNION {DependsOn(components, a) :
                                     a \in {b \in Assignments(components) : b.name \in from}},
                 k - 1)

Acyclic(components) ==
    \A a \in Assignments(components) :
        a.name \notin Reaches(components, DependsOn(components, a),
                              Cardinality(Assignments(components)))

-----------------------------------------------------------------------------
(* C1 *)
\* C1: for a complete, duplicate-free model with an acyclic dependency graph,
\* sorted_assignments returns every assignment exactly once, and every
\* assignment name an expression depends on stands strictly before the
\* assignment that depends on it.
C1_SortedOrderRespectsDependencies ==
    (res.op = "sorted_assignments" /\ res.assignments_only /\ Acyclic(ode[1].components))
        => /\ res.kind = "atoms"
           /\ NoRepeat(res.names)
           /\ Range(res.names) = AssignmentNames(ode[1].components)
           /\ \A a \in Assignments(ode[1].components) :
                 \A d \in DependsOn(ode[1].components, a) :
                     IndexOf(d, res.names) < IndexOf(a.name, res.names)

\* an acyclic model of four assignments was sorted, and the order is not the
\* order the assignments were handed over in
C1_Witness ==
    /\ res.op = "sorted_assignments" /\ res.assignments_only
    /\ Acyclic(ode[1].components)
    /\ res.kind = "atoms"
    /\ Len(res.names) = 4
    /\ \E a \in Assignments(ode[1].components) :
          Cardinality(DependsOn(ode[1].components, a)) = 2
    /\ res.names # <<"a", "b", "dx_dt", "dy_dt">>

(* C2 *)
\* C2: make_ode over complete components in which a name is defined more than
\* once raises DuplicateSymbolError carrying exactly the names that occur more
\* than once, before any expression is resolved or any sort is attempted.
C2_DuplicateSymbolBeforeResolution ==
    (/\ res.op = "make_ode"
     /\ \A i \in 1..Len(comps) : ~Incomplete(comps[i])
     /\ RepeatedNames(comps) # {})
        => /\ res.kind = "DuplicateSymbolError"
           /\ res.error[1].duplicates = RepeatedNames(comps)
           /\ ode = <<>>
           /\ "resolve_expressions" \notin Range(log)
           /\ "sort_assignments" \notin Range(log)

\* two components each define a parameter p, and a second name repeats as well
C2_Witness ==
    /\ res.op = "make_ode"
    /\ res.kind = "DuplicateSymbolError"
    /\ Len(comps) = 2
    /\ \A i \in 1..2 : \E q \in comps[i].parameters : q.name = "p"
    /\ res.error[1].duplicates = {"p", "x"}

(* C3 *)
\* C3: construction over a sequence with an incomplete component raises
\* ComponentNotCompleteError naming the first incomplete component in input
\* order and exactly its states that lack a derivative, also when names repeat.
C3_FirstIncompleteComponentReported ==
    (/\ res.op \in {"make_ode", "ODE"}
     /\ \E i \in 1..Len(comps) : Incomplete(comps[i]))
        => /\ res.kind = "ComponentNotCompleteError"
           /\ ode = <<>>
           /\ \E i \in 1..Len(comps) :
                 /\ Incomplete(comps[i])
                 /\ \A j \in 1..(i - 1) : ~Incomplete(comps[j])
                 /\ res.error[1].component_name = comps[i].name
                 /\ res.error[1].missing_state_derivatives = LackingDerivative(comps[i])

\* both components are incomplete and a name repeats: the first one is reported
C3_Witness ==
    /\ res.op = "make_ode"
    /\ res.kind = "ComponentNotCompleteError"
    /\ Len(comps) = 2
    /\ Incomplete(comps[1]) /\ Incomplete(comps[2])
    /\ RepeatedNames(comps) # {}
    /\ res.error[1].component_name = "Main component"
    /\ res.error[1].missing_state_derivatives = {"x"}

(* C4 *)
\* C4: sorting the assignments of a model whose dependency graph has a cycle
\* fails with a cycle error that lists names on a cycle (each name is referred to
\* by the expression of the next, the last is the first again); no order is
\* returned, and rhs generation fails with the same error.
C4_CycleIsFatal ==
    (/\ res.op \in {"sorted_assignments", "rhs"}
     /\ ~Acyclic(ode[1].components))
        => /\ res.kind = "CycleError"
           /\ res.op = "sorted_assignments" =>
                 /\ res.names = <<>>
                 /\ Len(res.cycle) >= 2
                 /\ res.cycle[1] = res.cycle[Len(res.cycle)]
                 /\ \A k \in 1..(Len(res.cycle) - 1) :
                       \E a \in Assignments(ode[1].components) :
                           /\ a.name = res.cycle[k + 1]
                           /\ res.cycle[k] \in DependsOn(ode[1].components, a)
           /\ res.op = "rhs" => res.code.values = <<>>

\* a refers to b and b refers to a
C4_Witness ==
    /\ res.op = "sorted_assignments"
    /\ res.kind = "CycleError"
    /\ Range(res.cycle) = {"a", "b"}
    /\ Len(res.cycle) = 3

(* C5 *)
\* C5 as claimed: every ODE a construction returns has unique atom names, only
\* complete components, and an acyclic dependency graph.
C5_ConstructedOdeIsAcyclic ==
    ode # <<>> =>
        /\ RepeatedNames(ode[1].components) = {}
        /\ \A i \in 1..Len(ode[1].components) : ~Incomplete(ode[1].components[i])
        /\ Acyclic(ode[1].components)

\* C5 amended: every ODE a construction returns has unique atom names and only
\* complete components; construction does not look at the dependency graph.
C5_ConstructedOdeIsUniqueAndComplete ==
    ode # <<>> =>
        /\ RepeatedNames(ode[1].components) = {}
        /\ \A i \in 1..Len(ode[1].components) : ~Incomplete(ode[1].components[i])
        /\ res.op \in {"make_ode", "ODE"} =>
              (res.kind = "ODE" /\ "sort_assignments" \notin Range(log))

\* the constructor was called directly on two components and returned an ODE
C5_Witness ==
    /\ res.op = "ODE" /\ res.kind = "ODE"
    /\ ode # <<>>
    /\ Len(ode[1].components) = 2
    /\ \A i \in 1..2 : ode[1].components[i].states # {}

\* where atoms of a set of components are defined and referred to
StatesOf(cs)      == UNION {c.states : c \in cs}
ParametersOf(cs)  == UNION {c.parameters : c \in cs}
AssignmentsOf(cs) == UNION {c.assignments : c \in cs}

DefinedIn(cs) ==
    {x.name : x \in StatesOf(cs)} \cup {q.name : q \in ParametersOf(cs)}
        \cup {a.name : a \in AssignmentsOf(cs)}

ReferredToIn(cs) == UNION {FreeNames(a.value) : a \in AssignmentsOf(cs)}

OwnNames(cs) ==
    {x.name : x \in StatesOf(cs)} \cup {q.name : q \in ParametersOf(cs)}
        \cup {a.name : a \in {b \in AssignmentsOf(cs) : b.kind = "Intermediate"}}

ComponentSet(o) == {o.components[i] : i \in 1..Len(o.components)}

C6_Witness ==
    /\ res.op = "sub" /\ res.kind = "ODE"
    /\ mname = "lorentz" /\ res.component.name = "Z component"
    /\ [k \in 1..2 |-> states(res.ode[1])[k].name] = <<"x", "y">>
    /\ [k \in 1..2 |-> parameters(res.ode[1])[k].name] = <<"rho", "sigma">>
    /\ res.missing_variables = {"z"}

C7_EveryCompleteComponentBecomesAnOde ==
    res.op = "to_ode" =>
        /\ Incomplete(res.component) =>
              (res.kind = "ComponentNotCompleteError" /\ res.ode = <<>>)
        /\ ~Incomplete(res.component) =>
              /\ res.kind = "ODE"
              /\ res.ode[1].name = res.component.name
              /\ Range(states(res.ode[1])) = res.component.states
              /\ Range(parameters(res.ode[1])) = res.component.parameters
              /\ AssignmentsOf(ComponentSet(res.ode[1])) = res.component.assignments
              /\ res.missing_variables =
                    ReferredToIn({res.component}) \ OwnNames({res.component})

\* C7 amended: the same for every complete component whose atom names are
\* distinct; to_ode fails with ComponentNotCompleteError for an incomplete C and
\* with DuplicateSymbolError for a complete C that defines a name twice.
C7_ToOdeIsTheComponentAlone ==
    res.op = "to_ode" =>
        /\ Incomplete(res.component) =>
              (res.kind = "ComponentNotCompleteError" /\ res.ode = <<>>)
        /\ (~Incomplete(res.component) /\ RepeatedNames(<<res.component>>) # {}) =>
              /\ res.kind = "DuplicateSymbolError" /\ res.ode = <<>>
              /\ res.error[1].duplicates = RepeatedNames(<<res.component>>)
        /\ (~Incomplete(res.component) /\ RepeatedNames(<<res.component>>) = {}) =>
              /\ res.kind = "ODE"
              /\ res.ode[1].name = res.component.name
              /\ Range(states(res.ode[1])) = res.component.states
              /\ Range(parameters(res.ode[1])) = res.component.parameters
              /\ AssignmentsOf(ComponentSet(res.ode[1])) = res.component.assignments
              /\ res.missing_variables =
                    ReferredToIn({res.component}) \ OwnNames({res.component})

\* the Z component of the three-state model became an ODE of its own
C7_Witness ==
    /\ res.op = "to_ode" /\ res.kind = "ODE"
    /\ mname = "lorentz" /\ res.component.name = "Z component"
    /\ res.ode[1].name = "Z component"
    /\ res.missing_variables = {"x", "y"}
    /\ [k \in 1..1 |-> states(res.ode[1])[k].name] = <<"z">>
    /\ [k \in 1..1 |-> parameters(res.ode[1])[k].name] = <<"beta">>

(* C9 *)
\* the position of a state in ODE.states, from 0: the number of states whose name
\* is smaller
StatePosition(o, n) ==
    Cardinality({x \in StatesOf(ComponentSet(o)) : NameLess(x.name, n)})

\* C9: in the body rhs produces, the assignments stand in the order of
\* sorted_assignments, every intermediate is assigned to its own name, and the
\* derivative of the state at position i of ODE.states is written to values[i].
C9_RhsWritesDerivativeAtStateIndex ==
    (res.op = "rhs" /\ res.kind = "code") =>
        LET sorted == sorted_assignments(ode[1], TRUE).atoms
            lines  == res.code.values
        IN  /\ Len(lines) = Len(sorted)
            /\ \A k \in 1..Len(lines) :
                  /\ lines[k].rhs = sorted[k].expr
                  /\ sorted[k].kind = "Intermediate" =>
                        (lines[k].lhs.base = "symbol" /\ lines[k].lhs.name = sorted[k].name)
                  /\ sorted[k].kind = "StateDerivative" =>
                        /\ lines[k].lhs.base = "values"
                        /\ lines[k].lhs.index = StatePosition(ode[1], sorted[k].state[1].name)

(* C10 *)
\* the expression with every intermediate replaced by its own expression, from
\* the trees as parsed
RECURSIVE Expanded(_, _)
Expanded(cs, tree) ==
    IF tree.op = "sym"
    THEN IF \E a \in AssignmentsOf(cs) : a.kind = "Intermediate" /\ a.name = tree.name
         THEN Expanded(cs, (CHOOSE a \in AssignmentsOf(cs) :
                               a.kind = "Intermediate" /\ a.name = tree.name).value)
         ELSE IF tree.name = "time" THEN Sym("t") ELSE tree
    ELSE IF tree.op = "num" THEN tree
    ELSE [tree EXCEPT !.args = [i \in 1..Len(tree.args) |-> Expanded(cs, tree.args[i])]]

\* C10: the RHS vector has one entry per state, and entry i is the derivative
\* expression, intermediates substituted away, of the state at position i of the
\* states in lexicographic name order.
C10_RhsVectorFollowsStateOrder ==
    res.op = "rhs_matrix" =>
        LET cs == ComponentSet(ode[1]) IN
        /\ Len(res.rhs) = Cardinality(StatesOf(cs))
        /\ \A x \in StatesOf(cs) :
              LET d == CHOOSE a \in AssignmentsOf(cs) :
                           a.kind = "StateDerivative" /\ a.state[1].name = x.name
                  e == res.rhs[StatePosition(ode[1], x.name) + 1]
              IN  /\ e = Expanded(cs, d.value)
                  /\ \A a \in AssignmentsOf(cs) :
                        a.kind = "Intermediate" => a.name \notin FreeNames(e)

\* the vector of the three-state model, as tests/test_sympytools.py expects it:
\* sigma*(-x + y), x*(rho - z) - y, -beta*z + x*y
C10_Witness ==
    /\ res.op = "rhs_matrix"
    /\ mname = "lorentz"
    /\ res.rhs = <<Mul(Sym("sigma"), Add(Neg(Sym("x")), Sym("y"))),
                   Add(Mul(Sym("x"), Add(Sym("rho"), Neg(Sym("z")))), Neg(Sym("y"))),
                   Add(Neg(Mul(Sym("beta"), Sym("z"))), Mul(Sym("x"), Sym("y")))>>

(* C11 *)
\* C11: forward explicit Euler emits exactly one update per state, and the
\* update of the state at position i of ODE.states is
\* values[i] = state + dt * RHS[i]; for x = 1.0, a = 1.0, dx_dt = -a*x it is
\* x + dt*(-a*x).
C11_EulerUpdatesEveryStateOnce ==
    (res.op = "forward_explicit_euler" /\ res.kind = "code") =>
        LET cs    == ComponentSet(ode[1])
            lines == res.code.values
        IN  /\ Len(lines) = Cardinality(StatesOf(cs))
            /\ \A x \in StatesOf(cs) :
                  LET d == CHOOSE a \in AssignmentsOf(cs) :
                               a.kind = "StateDerivative" /\ a.state[1].name = x.name
                      i == StatePosition(ode[1], x.name)
                  IN  /\ lines[i + 1].lhs = [base |-> "values", name |-> "values",
                                             index |-> i]
                      /\ lines[i + 1].rhs =
                            Add(Sym(x.name), Mul(Sym("dt"), Expanded(cs, d.value)))
            /\ (comps \in EndToEndModels) =>
                  lines = <<[lhs |-> [base |-> "values", name |-> "values", index |-> 0],
                             rhs |-> Add(Sym("x"),
                                         Mul(Sym("dt"),
                                             Neg(Mul(Sym("a"), Sym("x")))))]>>

\* the update of the end-to-end model was generated
C11_Witness ==
    /\ res.op = "forward_explicit_euler" /\ res.kind = "code"
    /\ comps \in EndToEndModels
    /\ Len(res.code.values) = 1
    /\ res.code.values[1].rhs = Add(Sym("x"), Mul(Sym("dt"), Neg(Mul(Sym("a"), Sym("x")))))

(* C12 *)
\* the largest power of x in the expression tree
RECURSIVE Degree(_, _)
Degree(e, x) ==
    IF e.op = "sym" THEN (IF e.name = x THEN 1 ELSE 0)
    ELSE IF e.op = "num" THEN 0
    ELSE IF e.op = "neg" THEN Degree(e.args[1], x)
    ELSE IF e.op = "add"
         THEN (IF Degree(e.args[1], x) >= Degree(e.args[2], x)
               THEN Degree(e.args[1], x) ELSE Degree(e.args[2], x))
    ELSE Degree(e.args[1], x) + Degree(e.args[2], x)

\* the derivative of state n, intermediates substituted away
DerivativeOf(cs, n) ==
    Expanded(cs, (CHOOSE a \in AssignmentsOf(cs) :
                     a.kind = "StateDerivative" /\ a.state[1].name = n).value)

\* C12: the hybrid scheme emits exactly one update per state; a state gets the
\* Rush-Larsen update only if it is in the stiff subset (or none was given) and
\* its derivative is linear in it; a stiff state whose derivative is not linear
\* in it gets explicit Euler and no error is raised; every state outside the
\* subset gets explicit Euler.
C12_HybridFallsBackToEuler ==
    res.op = "hybrid" =>
        LET cs == ComponentSet(ode[1])
            us == res.updates
            asked(n) == res.stiff_states = <<>> \/ n \in res.stiff_states[1]
        IN  /\ res.kind = "code"
            /\ Len(us) = Cardinality(StatesOf(cs))
            /\ \A x \in StatesOf(cs) :
                  Cardinality({k \in 1..Len(us) : us[k].state = x.name}) = 1
            /\ \A k \in 1..Len(us) :
                  /\ us[k].scheme \in {"rush_larsen", "forward_explicit_euler"}
                  /\ us[k].scheme = "rush_larsen" =>
                        /\ asked(us[k].state)
                        /\ Degree(DerivativeOf(cs, us[k].state), us[k].state) <= 1
                  /\ (asked(us[k].state)
                        /\ Degree(DerivativeOf(cs, us[k].state), us[k].state) > 1) =>
                        us[k].scheme = "forward_explicit_euler"
                  /\ ~asked(us[k].state) => us[k].scheme = "forward_explicit_euler"

\* both states were named stiff; x, whose derivative is x*x, fell back to Euler
\* and y, whose derivative is x*y, got Rush-Larsen
C12_Witness ==
    /\ res.op = "hybrid" /\ res.kind = "code"
    /\ res.stiff_states = <<{"x", "y"}>>
    /\ Len(res.updates) = 2
    /\ res.updates[1].state = "x" /\ res.updates[1].rhs = Mul(Sym("x"), Sym("x"))
    /\ res.updates[1].scheme = "forward_explicit_euler"
    /\ res.updates[2].state = "y" /\ res.updates[2].rhs = Mul(Sym("x"), Sym("y"))
    /\ res.updates[2].scheme = "rush_larsen"

(* C13 *)
\* C13: the argument orders are exactly the six permutations of (states, time,
\* parameters), and the order changes nothing in rhs but the argument list: the
\* assignment lines, their right-hand sides, their order and the output indices
\* are the same for all six orders.  Each order is compared with the order stp
\* of the same ODE and formatter.
C13_OrderChangesOnlyTheArguments ==
    /\ Cardinality(RHSArgument) = 6
    /\ {rhs_arguments(order) : order \in RHSArgument} = Perms({"states", "t", "parameters"})
    /\ (res.op = "rhs" /\ res.kind = "code" /\ res.order = "stp") =>
          \A order \in RHSArgument :
              LET other == rhs(ode[1], order, res.formatter)
              IN  /\ other.kind = "code"
                  /\ other.order = order
                  /\ other.values = res.code.values
                  /\ [other EXCEPT !.order = res.order] = res.code

\* rhs was generated with the states first, and again with them last, for a model
\* with an intermediate and two derivatives
C13_Witness ==
    /\ res.op = "rhs" /\ res.kind = "code" /\ res.order = "stp"
    /\ rhs(ode[1], "pts", res.formatter).order = "pts"
    /\ \E k \in 1..Len(res.code.values) : res.code.values[k].lhs.base = "symbol"
    /\ \E k \in 1..Len(res.code.values) : res.code.values[k].lhs.index = 1

(* C14 *)
GenerationOps ==
    {"rhs", "forward_explicit_euler", "state_index", "parameter_index",
     "initial_state_values", "initial_parameter_values"}

\* what the entry point of the last call returns when the formatter leaves the
\* template's output as it is
Unformatted ==
    CASE res.op = "rhs" -> rhs(ode[1], res.order, "identity")
      [] res.op = "forward_explicit_euler" -> forward_explicit_euler(ode[1], "identity")
      [] res.op = "state_index" -> state_index(ode[1], "identity")
      [] res.op = "parameter_index" -> parameter_index(ode[1], "identity")
      [] res.op = "initial_state_values" -> initial_state_values(ode[1], "identity")
      [] res.op = "initial_parameter_values" ->
            initial_parameter_values(ode[1], "identity")

\* C14: for every generation entry point, when the formatter fails for any
\* reason (an Exception, or an exception that is a BaseException only) the entry
\* point returns normally and its result is the unformatted template output;
\* when the formatter succeeds the result is the formatter's output.
C14_FormatterFailureIsNotFatal ==
    (res.op \in GenerationOps /\ (res.op = "rhs" => res.kind # "CycleError")) =>
        /\ res.kind = "code"
        /\ res.formatter \in {"raises", "exits"} => res.code = Unformatted
        /\ res.formatter = "identity" => res.code = Unformatted
        /\ res.formatter = "reformats" =>
              (res.code = [Unformatted EXCEPT !.formatted = TRUE] /\ res.code.formatted)

(* C18 *)
\* C18: state_index maps each state name to its position in the name-sorted
\* ODE.states, a bijection onto 0..n-1, and position i of the vector of
\* initial_state_values holds the initial value of the state whose index is i;
\* likewise for parameter_index and initial_parameter_values.
C18_InitialValuesFollowTheIndexMaps ==
    LET cs == ComponentSet(ode[1]) IN
    /\ (res.op = "state_index" /\ res.kind = "code") =>
          /\ {e.name : e \in Range(res.code.data)} = {x.name : x \in StatesOf(cs)}
          /\ {e.index : e \in Range(res.code.data)} = 0..(Cardinality(StatesOf(cs)) - 1)
          /\ \A e \in Range(res.code.data) : e.index = StatePosition(ode[1], e.name)
    /\ (res.op = "parameter_index" /\ res.kind = "code") =>
          /\ {e.name : e \in Range(res.code.data)} = {q.name : q \in ParametersOf(cs)}
          /\ {e.index : e \in Range(res.code.data)}
                = 0..(Cardinality(ParametersOf(cs)) - 1)
          /\ \A d, e \in Range(res.code.data) :
                NameLess(d.name, e.name) => d.index < e.index
    /\ (res.op = "initial_state_values" /\ res.kind = "code") =>
          /\ Len(res.code.code) = Cardinality(StatesOf(cs))
          /\ \A e \in Range(state_index(ode[1], "identity").data) :
                \E x \in StatesOf(cs) :
                    x.name = e.name /\ res.code.code[e.index + 1] = x.value
    /\ (res.op = "initial_parameter_values" /\ res.kind = "code") =>
          /\ Len(res.code.code) = Cardinality(ParametersOf(cs))
          /\ \A e \in Range(parameter_index(ode[1], "identity").data) :
                \E q \in ParametersOf(cs) :
                    q.name = e.name /\ res.code.code[e.index + 1] = q.value

(* C17 *)
\* the place of the assignment named n in the insertion order the text gives:
\* components in the caller's order, in each component the state derivatives
\* before the intermediates
InsertionRank(o, n) ==
    LET c == CHOOSE i \in 1..Len(o.components) :
                 \E a \in o.components[i].assignments : a.name = n
        a == CHOOSE b \in o.components[c].assignments : b.name = n
    IN  2 * c + (IF a.kind = "StateDerivative" THEN 0 ELSE 1)

\* every assignment the assignment named n depends on stands before position i
ReadyAt(o, names, n, i) ==
    \A a \in AssignmentsOf(ComponentSet(o)) :
        a.name = n =>
            DependsOn(o.components, a) \subseteq {names[k] : k \in 1..(i - 1)}

\* C17: in the order sorted_assignments returns, whenever two assignments are
\* both ready (all their dependencies already placed), the one inserted first
\* comes first: components in the caller's order, in a component the state
\* derivatives and then the intermediates as declared.  The declaration order
\* inside one kind of one component is free here: any order of the result is
\* one such declaration order.
C17_TiesAreBrokenByInsertionOrder ==
    (res.op = "sorted_assignments" /\ res.kind = "atoms" /\ res.assignments_only) =>
        \A i, j \in 1..Len(res.names) :
            (/\ i < j
             /\ ReadyAt(ode[1], res.names, res.names[i], i)
             /\ ReadyAt(ode[1], res.names, res.names[j], i)) =>
                InsertionRank(ode[1], res.names[i]) <= InsertionRank(ode[1], res.names[j])

=============================================================================
